---- MODULE Spec2Model ----
(***************************************************************************)
(* Model of labby's per-port serial arbitrator                             *)
(* (src/labby/hw/core/serial.py): the SERIAL_CONTROLLERS registry, the      *)
(* SerialController worker thread with its priority job queue and result   *)
(* map, and the SerialDevice facade calls open/write/query/close issued by *)
(* caller threads.                                                         *)
(***************************************************************************)
EXTENDS Integers, Sequences, FiniteSets, TLC

VARIABLES
    SERIAL_CONTROLLERS, \* port -> controller id, 0 when the port has no entry
    nctl,               \* number of SerialController objects constructed so far
    ctl,                \* controller id -> the SerialController object's state
    thr,                \* caller thread (one SerialDevice each) -> its state
    lastOp,             \* port -> uuid of the job whose transport operation came last
    hist,               \* port -> how many opens and closes were issued so far
    ncalls,             \* number of facade calls made so far, by all threads
    env,                \* what the environment may do in this behaviour
    srv,                \* the server process: its request loop and what it did
    cli                 \* the client: its Req0 socket and the call it is in

serialVars == <<SERIAL_CONTROLLERS, nctl, ctl, thr, lastOp, hist, ncalls, env>>

vars == <<SERIAL_CONTROLLERS, nctl, ctl, thr, lastOp, hist, ncalls, env, srv, cli>>

----------------------------------------------------------------------------
(* Bounds *)

NumThreads == 2      \* caller threads of the main specification
MaxCalls == 4        \* facade calls (open/write/query/close) made in one behaviour
MaxCtl == 3          \* SerialController objects constructed in one behaviour
RaceCalls == 5       \* facade calls in one behaviour of SpecRace
NumFifoThreads == 4  \* caller threads of SpecFifo
FifoCalls == 4       \* facade calls made after the opens in SpecFifo
PrioCalls == 4       \* facade calls in one behaviour of SpecPrio
AgainCalls == 4      \* facade calls in one behaviour of SpecAgain
PortsCalls == 4      \* facade calls in one behaviour of SpecPorts
LineCalls == 2       \* facade calls in one behaviour of SpecLine
MaxLineLen == 3      \* bytes in one line returned by the transport
NumDevices == 2      \* devices in the server's configuration
MaxFrames == 3       \* frames the server receives in one behaviour
MaxClientCalls == 3  \* calls made on one client connection in one behaviour
FacadeCalls == 4     \* facade calls in one behaviour of SpecFacade

Ports == {"A", "B"}
Controllers == 1..MaxCtl
NoCtl == 0
NoJob == [uuid |-> <<0, 0>>, type |-> "NONE", priority |-> "LOW", seq |-> 0]
NoUuid == <<0, 0>>

Threads == DOMAIN thr
ThreadIds == 1..NumFifoThreads

----------------------------------------------------------------------------
(* The job queue: queue.PriorityQueue, a binary heap (heappush / heappop)  *)
(* over jobs that compare by their priority field only.                    *)

(* SerialControllerJob.__lt__ as generated by dataclass(order=True):       *)
(* (a.priority,) < (b.priority,).  Tuple comparison first looks for a      *)
(* position where the members differ; equal members give False.  Members   *)
(* that differ are compared with <, which the Enum members do not support: *)
(* TypeError.                                                              *)
JobLt(a, b) ==
    IF a.priority = b.priority THEN "ge" ELSE "err"

Swap(h, i, j) == [h EXCEPT ![i] = h[j], ![j] = h[i]]

(* heapq's siftdown(heap, startpos, pos), positions 1-based here.          *)
RECURSIVE SiftDown(_, _, _)
SiftDown(h, startpos, pos) ==
    IF pos <= startpos THEN [heap |-> h, err |-> FALSE]
    ELSE LET parentpos == pos \div 2
             cmp == JobLt(h[pos], h[parentpos])
         IN  IF cmp = "err" THEN [heap |-> h, err |-> TRUE]
             ELSE IF cmp = "ge" THEN [heap |-> h, err |-> FALSE]
             ELSE SiftDown(Swap(h, pos, parentpos), startpos, parentpos)

(* heapq's siftup(heap, pos): bubble the smaller child up to a leaf, then  *)
(* sift the moved item down.                                               *)
RECURSIVE SiftUp(_, _, _)
SiftUp(h, startpos, pos) ==
    LET endpos == Len(h)
        childpos == 2 * pos
    IN  IF childpos > endpos THEN SiftDown(h, startpos, pos)
        ELSE IF childpos + 1 <= endpos
             THEN LET cmp == JobLt(h[childpos], h[childpos + 1])
                  IN  IF cmp = "err" THEN [heap |-> h, err |-> TRUE]
                      ELSE LET c == IF cmp = "lt" THEN childpos ELSE childpos + 1
                           IN  SiftUp(Swap(h, pos, c), startpos, c)
             ELSE SiftUp(Swap(h, pos, childpos), startpos, childpos)

(* heappush: append, then sift down from the last position.                *)
HeapPush(h, item) ==
    LET a == Append(h, item) IN SiftDown(a, 1, Len(a))

(* heappop: take the last element; if the heap is not empty, return the    *)
(* root, put the last element in its place and sift up.                    *)
HeapPop(h) ==
    LET lastelt == h[Len(h)]
        rest == SubSeq(h, 1, Len(h) - 1)
    IN  IF rest = <<>> THEN [item |-> lastelt, heap |-> rest, err |-> FALSE]
        ELSE LET r == SiftUp([rest EXCEPT ![1] = lastelt], 1, 1)
             IN  [item |-> rest[1], heap |-> r.heap, err |-> r.err]

----------------------------------------------------------------------------
(* Object state *)

(* A controller whose constructor opens the transport.                     *)
NewControllerOpened(p) ==
    [port |-> p, num_clients |-> 0, job_queue |-> <<>>, job_results |-> {},
     unfinished_tasks |-> 0, thread |-> "new", wpc |-> "-", wjob |-> NoJob,
     is_open |-> TRUE, locked |-> FALSE, closes |-> 0, failed |-> FALSE,
     opens |-> 1]

(* SerialController.__init__: a fresh controller for port p; its thread is *)
(* constructed but not started, its Serial object is not opened.           *)
NewController(p) ==
    [port |-> p, num_clients |-> 0, job_queue |-> <<>>, job_results |-> {},
     unfinished_tasks |-> 0, thread |-> "new", wpc |-> "-", wjob |-> NoJob,
     is_open |-> FALSE, locked |-> FALSE, closes |-> 0, failed |-> FALSE,
     opens |-> 0]

NoController == [NewController("A") EXCEPT !.thread = "none"]

NoOutcome == [kind |-> "none", what |-> "", src |-> NoUuid]

(* SerialDevice.__init__ plus the calling thread's position.               *)
NewThread(p) ==
    [port |-> p, pc |-> "idle", mode |-> "closed", dev |-> NoCtl, sc |-> NoCtl,
     job |-> NoJob, calls |-> 0, outcome |-> NoOutcome,
     holding |-> NoCtl, io |-> {}, rx |-> <<>>]

(* The calls made so far are counted to bound the behaviour.              *)
CanCall == ncalls < env.budget

(* threading.Thread.is_alive(): started and run() not yet finished.        *)
is_alive(c) == ctl[c].thread = "alive"

(* The thread that created job j (each call creates one job, uuid unique). *)
Owner(j) == j.uuid[1]

Exc(what, j) == [kind |-> "exc", what |-> what, src |-> j.uuid]

----------------------------------------------------------------------------
(* SerialDevice.open, first half: SerialController.get_or_create, one      *)
(* critical section of REGISTRY_LOCK.                                      *)

(* The test of get_or_create: the port has an entry and its thread is alive *)
ReuseExisting(p) ==
    /\ SERIAL_CONTROLLERS[p] # NoCtl
    /\ is_alive(SERIAL_CONTROLLERS[p])

get_or_create(t) ==
    /\ t \in Threads
    /\ thr[t].pc = "idle"
    /\ thr[t].mode = "closed"
    /\ CanCall
    /\ LET p == thr[t].port IN
        IF ReuseExisting(p)
        THEN LET c == SERIAL_CONTROLLERS[p] IN
             /\ ctl' = [ctl EXCEPT ![c].num_clients = @ + 1]
             /\ thr' = [thr EXCEPT ![t].pc = "start", ![t].sc = c,
                                   ![t].holding = c, ![t].calls = @ + 1]
             /\ UNCHANGED <<SERIAL_CONTROLLERS, nctl>>
        ELSE LET c == nctl + 1 IN
             /\ nctl < MaxCtl
             /\ nctl' = c
             /\ ctl' = [ctl EXCEPT ![c] = [NewController(p) EXCEPT !.num_clients = 1]]
             /\ SERIAL_CONTROLLERS' = [SERIAL_CONTROLLERS EXCEPT ![p] = c]
             /\ thr' = [thr EXCEPT ![t].pc = "start", ![t].sc = c,
                                   ![t].holding = c, ![t].calls = @ + 1]
    /\ ncalls' = ncalls + 1
    /\ hist' = [hist EXCEPT ![thr[t].port].acquired = @ + 1]
    /\ UNCHANGED <<lastOp, env, srv, cli>>

(* SerialDevice.open, second half: start the controller unless it is alive, *)
(* then keep it as the device's controller.  Thread.start() on a thread    *)
(* that already ran raises RuntimeError.                                   *)
start_if_not_alive(t) ==
    /\ t \in Threads
    /\ thr[t].pc = "start"
    /\ LET c == thr[t].sc IN
        CASE ctl[c].thread = "alive" ->
                /\ thr' = [thr EXCEPT ![t].pc = "idle", ![t].dev = c, ![t].mode = "open",
                                      ![t].outcome = [NoOutcome EXCEPT !.kind = "ok"]]
                /\ UNCHANGED ctl
          [] ctl[c].thread = "new" ->
                /\ ctl' = [ctl EXCEPT ![c].thread = "alive", ![c].wpc = "loop"]
                /\ thr' = [thr EXCEPT ![t].pc = "idle", ![t].dev = c, ![t].mode = "open",
                                      ![t].outcome = [NoOutcome EXCEPT !.kind = "ok"]]
          [] OTHER ->
                /\ thr' = [thr EXCEPT ![t].pc = "idle", ![t].holding = NoCtl,
                                      ![t].outcome = [kind |-> "exc", what |-> "RuntimeError",
                                                      src |-> NoUuid]]
                /\ UNCHANGED ctl
    /\ UNCHANGED <<SERIAL_CONTROLLERS, nctl, lastOp, hist, ncalls, env, srv, cli>>

----------------------------------------------------------------------------
(* SerialController.write / query / close: build the job, then             *)
(* _run_and_wait: with job.condition: job_queue.put(job); condition.wait() *)

(* The public calls build their job with the default priority, LOW.        *)
DefaultPriority == "LOW"

(* with job.condition: job_queue.put(job).  PriorityQueue.put pushes on    *)
(* the heap and then counts the task; a comparison error leaves the pushed *)
(* item in the heap, skips the count and propagates to the caller.         *)
job_queue_put(t, type, prio) ==
    /\ t \in Threads
    /\ thr[t].pc = "idle"
    /\ thr[t].dev # NoCtl
    /\ CanCall
    /\ LET c == thr[t].dev
           j == [uuid |-> <<t, thr[t].calls + 1>>, type |-> type, priority |-> prio,
                 seq |-> ncalls + 1]
           r == HeapPush(ctl[c].job_queue, j)
       IN  IF r.err
           THEN /\ ctl' = [ctl EXCEPT ![c].job_queue = r.heap]
                /\ thr' = [thr EXCEPT ![t].job = j, ![t].calls = @ + 1, ![t].io = {},
                                      ![t].rx = <<>>,
                                      ![t].outcome = Exc("TypeError", j),
                                      ![t].mode = IF type = "CLOSE" THEN "closed" ELSE @]
           ELSE /\ ctl' = [ctl EXCEPT ![c].job_queue = r.heap,
                                      ![c].unfinished_tasks = @ + 1]
                /\ thr' = [thr EXCEPT ![t].pc = "put", ![t].job = j, ![t].calls = @ + 1,
                                      ![t].io = {}, ![t].rx = <<>>,
                                      ![t].outcome = NoOutcome]
    /\ ncalls' = ncalls + 1
    /\ hist' = [hist EXCEPT ![thr[t].port].released =
                                 IF type = "CLOSE" THEN @ + 1 ELSE @]
    /\ UNCHANGED <<SERIAL_CONTROLLERS, nctl, lastOp, env, srv, cli>>

(* A call made by the open / use / close protocol: the device is open.     *)
run_and_wait_put(t, type, prio) ==
    /\ t \in Threads
    /\ thr[t].mode = "open"
    /\ job_queue_put(t, type, prio)

write(t) == run_and_wait_put(t, "WRITE", DefaultPriority)
query(t) == run_and_wait_put(t, "QUERY", DefaultPriority)
close(t) == run_and_wait_put(t, "CLOSE", DefaultPriority)

(* SerialDevice.close() on a device that was closed before: close leaves   *)
(* _serial_controller set, so the call hands a CLOSE job to the controller *)
(* the device used last.                                                   *)
close_again(t) ==
    /\ t \in Threads
    /\ thr[t].mode = "closed"
    /\ job_queue_put(t, "CLOSE", DefaultPriority)

(* SerialDevice._write / _query on a device that was closed before: the    *)
(* serial_controller property still returns the controller used last.     *)
write_again(t) ==
    /\ t \in Threads
    /\ thr[t].mode = "closed"
    /\ job_queue_put(t, "WRITE", DefaultPriority)

query_again(t) ==
    /\ t \in Threads
    /\ thr[t].mode = "closed"
    /\ job_queue_put(t, "QUERY", DefaultPriority)

(* SerialDevice._write / _query / close on a device that was never opened: *)
(* _serial_controller is None and none_throws raises in the               *)
(* serial_controller property, before any job is built.                    *)
serial_controller_none(t) ==
    /\ t \in Threads
    /\ thr[t].pc = "idle"
    /\ thr[t].mode = "closed"
    /\ thr[t].dev = NoCtl
    /\ CanCall
    /\ thr' = [thr EXCEPT ![t].calls = @ + 1,
                          ![t].outcome = [kind |-> "exc", what |-> "AssertionError",
                                          src |-> NoUuid]]
    /\ ncalls' = ncalls + 1
    /\ UNCHANGED <<SERIAL_CONTROLLERS, nctl, ctl, lastOp, hist, env, srv, cli>>

(* A caller that goes on without waiting for the worker's notification.   *)
run_and_wait_nowait(t) ==
    /\ t \in Threads
    /\ thr[t].pc = "put"
    /\ thr' = [thr EXCEPT ![t].pc = "woken"]
    /\ UNCHANGED <<SERIAL_CONTROLLERS, nctl, ctl, lastOp, hist, ncalls, env, srv, cli>>

(* job.condition.wait(): releases the condition and blocks.                *)
run_and_wait_wait(t) ==
    /\ t \in Threads
    /\ thr[t].pc = "put"
    /\ thr' = [thr EXCEPT ![t].pc = "waiting"]
    /\ UNCHANGED <<SERIAL_CONTROLLERS, nctl, ctl, lastOp, hist, ncalls, env, srv, cli>>

(* A lookup that takes whatever result the map holds, not the job's own.   *)
ReadKeyAny(c, j) ==
    IF ctl[c].job_results = {} THEN j.uuid
    ELSE (CHOOSE e \in ctl[c].job_results : TRUE).uuid

(* The key under which _read_result looks the job's result up.             *)
ReadKey(c, j) == j.uuid

(* _read_result: take the result stored under the job's uuid and delete    *)
(* it; return it if it has the call's result type, else raise it.          *)
read_result(t) ==
    /\ t \in Threads
    /\ thr[t].pc = "woken"
    /\ LET c == thr[t].dev
           j == thr[t].job
           k == ReadKey(c, j)
           found == {e \in ctl[c].job_results : e.uuid = k}
           result == IF found = {} THEN [kind |-> "None", what |-> "", src |-> j.uuid]
                     ELSE (CHOOSE e \in found : TRUE).val
           wanted == IF j.type = "QUERY" THEN "str" ELSE "None"
           out == IF result.kind = wanted \/ result.kind = "exc" THEN result
                  ELSE [kind |-> "exc", what |-> "AssertionError", src |-> j.uuid]
       IN  /\ ctl' = [ctl EXCEPT ![c].job_results = @ \ found]
           /\ thr' = [thr EXCEPT ![t].pc = "idle", ![t].outcome = out,
                                 ![t].mode = IF j.type = "CLOSE" THEN "closed" ELSE @]
    /\ UNCHANGED <<SERIAL_CONTROLLERS, nctl, lastOp, hist, ncalls, env, srv, cli>>

----------------------------------------------------------------------------
(* SerialController.run, the worker thread, and _execute_job.              *)

(* Bytes on the line: a letter, carriage return, line feed, and a byte     *)
(* that is no UTF-8.                                                       *)
CharA == 65
CR == 13
LF == 10
NotUtf8 == 255

LineBytes == {CharA, CR, NotUtf8}

Content(n) == UNION {[1..k -> LineBytes] : k \in 0..n}

(* What serial.readline() may return: the bytes received up to and         *)
(* including the first line feed, or, at the timeout, the bytes received   *)
(* so far (none, or a line without its end).                               *)
Lines == Content(MaxLineLen) \cup {Append(l, LF) : l \in Content(MaxLineLen - 1)}

(* The line of the tests: text followed by CR LF.                          *)
TerminatedLine == <<CharA, CR, LF>>

(* line[:-2]: the line without its last two bytes; empty when the line has *)
(* two bytes or fewer.                                                     *)
Slice(line) ==
    IF Len(line) <= 2 THEN <<>> ELSE SubSeq(line, 1, Len(line) - 2)

Chr(b) ==
    CASE b = CharA -> "A"
      [] b = CR -> "\r"
      [] b = LF -> "\n"

(* bytes.decode("utf-8"): the text of the bytes, or UnicodeDecodeError     *)
(* when a byte is no UTF-8.                                                *)
RECURSIVE DecodeUtf8(_)
DecodeUtf8(bytes) ==
    IF bytes = <<>> THEN [ok |-> TRUE, text |-> ""]
    ELSE IF Head(bytes) = NotUtf8 THEN [ok |-> FALSE, text |-> ""]
    ELSE LET rest == DecodeUtf8(Tail(bytes))
         IN  [ok |-> rest.ok, text |-> IF rest.ok THEN Chr(Head(bytes)) \o rest.text ELSE ""]

(* self.serial.readline()[:-2].decode("utf-8")                             *)
Response(line) == DecodeUtf8(Slice(line))

(* Outcomes the transport may produce for one operation in this behaviour. *)
Outcomes == IF env.faults THEN {TRUE, FALSE} ELSE {TRUE}

(* The key under which _execute_job stores a job's result or exception.    *)
StoreKey(j) == j.uuid

Store(c, j, val) == ctl[c].job_results \cup {[uuid |-> StoreKey(j), val |-> val]}

(* except Exception as ex: self.job_results[job.uuid] = ex; the job is     *)
(* over and the worker goes on to notify.                                  *)
Failed(c, j, what) ==
    [ctl[c] EXCEPT !.wpc = "notify", !.failed = TRUE,
                   !.job_results = Store(c, j, Exc(what, j))]

(* The caller's record of which transport operations its current job had.  *)
Performed(j, op) ==
    [t \in Threads |->
        IF thr[t].job.uuid = j.uuid THEN [thr[t] EXCEPT !.io = @ \cup {op}] ELSE thr[t]]

(* The caller's record of the line its current job read.                   *)
Received(j, line) ==
    [t \in Threads |->
        IF thr[t].job.uuid = j.uuid
        THEN [thr[t] EXCEPT !.io = @ \cup {"readline"}, !.rx = line] ELSE thr[t]]

(* The finally clause of run: serial.close(), then the thread ends.        *)
Exited(c) ==
    [ctl[c] EXCEPT !.thread = "dead", !.wpc = "-", !.is_open = FALSE,
                   !.locked = FALSE, !.closes = @ + 1]

(* The loop test of run: the port has an entry in the registry.            *)
LoopCondition(c) == SERIAL_CONTROLLERS[ctl[c].port] # NoCtl

(* while self.serial.port in SERIAL_CONTROLLERS.keys(): ... ; on leaving   *)
(* the loop: assert job_queue.empty(), and finally serial.close().         *)
run_loop(c) ==
    /\ ctl[c].thread = "alive"
    /\ ctl[c].wpc = "loop"
    /\ IF LoopCondition(c)
       THEN ctl' = [ctl EXCEPT ![c].wpc = "get"]
       ELSE ctl' = [ctl EXCEPT ![c] = Exited(c)]
    /\ UNCHANGED <<SERIAL_CONTROLLERS, nctl, thr, lastOp, hist, ncalls, env, srv, cli>>

(* job = self.job_queue.get(): blocks while the queue is empty; a          *)
(* comparison error inside heappop propagates out of run.                  *)
run_get(c) ==
    /\ ctl[c].thread = "alive"
    /\ ctl[c].wpc = "get"
    /\ ctl[c].job_queue # <<>>
    /\ LET r == HeapPop(ctl[c].job_queue) IN
        IF r.err
        THEN ctl' = [ctl EXCEPT ![c] = [Exited(c) EXCEPT !.job_queue = r.heap]]
        ELSE ctl' = [ctl EXCEPT ![c].job_queue = r.heap, ![c].wjob = r.item,
                                ![c].wpc = "exec"]
    /\ UNCHANGED <<SERIAL_CONTROLLERS, nctl, thr, lastOp, hist, ncalls, env, srv, cli>>

(* A condition the worker enters without waiting for the caller.           *)
ConditionNotTaken(j) == TRUE

(* job.condition is held by the caller from before put until it waits.     *)
ConditionFree(j) ==
    \A t \in Threads : ~(thr[t].pc = "put" /\ thr[t].job.uuid = j.uuid)

(* A lock that all ports share: refused while any other controller holds   *)
(* it.                                                                     *)
FlockFreeOfAllPorts(c) ==
    \A d \in Controllers : d # c => ~ctl[d].locked

(* fcntl.flock(LOCK_EX | LOCK_NB) on this controller's own file            *)
(* description: refused while another open description of the same port    *)
(* holds the lock.                                                         *)
FlockFree(c) ==
    \A d \in Controllers : d # c /\ ctl[d].port = ctl[c].port => ~ctl[d].locked

(* A refused lock after which the transport is closed again.               *)
RefusedAndClosed(c, j) ==
    [Failed(c, j, "BlockingIOError") EXCEPT !.opens = @ + 1]

(* serial.open() returned and flock raised: the exception is stored under  *)
(* the job's uuid; the transport stays open, without the lock.             *)
Refused(c, j) ==
    [Failed(c, j, "BlockingIOError") EXCEPT !.is_open = TRUE, !.opens = @ + 1]

(* with job.condition: _execute_job(job), up to the first transport        *)
(* operation.  CLOSE: the REGISTRY_LOCK section.  WRITE / QUERY: open and  *)
(* lock the transport if it is not open.                                   *)
execute_job(c) ==
    /\ ctl[c].thread = "alive"
    /\ ctl[c].wpc = "exec"
    /\ ConditionFree(ctl[c].wjob)
    /\ LET j == ctl[c].wjob
           p == ctl[c].port
       IN  IF j.type = "CLOSE"
           THEN LET n == ctl[c].num_clients - 1 IN
                /\ thr' = [thr EXCEPT ![Owner(j)].holding = NoCtl]
                /\ IF n = 0
                   THEN IF SERIAL_CONTROLLERS[p] # NoCtl
                        THEN /\ SERIAL_CONTROLLERS' = [SERIAL_CONTROLLERS EXCEPT ![p] = NoCtl]
                             /\ ctl' = [ctl EXCEPT ![c].num_clients = n,
                                                   ![c].wpc = "notify"]
                        ELSE /\ ctl' = [ctl EXCEPT ![c] =
                                          [Failed(c, j, "KeyError") EXCEPT !.num_clients = n]]
                             /\ UNCHANGED SERIAL_CONTROLLERS
                   ELSE /\ ctl' = [ctl EXCEPT ![c].num_clients = n, ![c].wpc = "notify"]
                        /\ UNCHANGED SERIAL_CONTROLLERS
           ELSE /\ UNCHANGED <<SERIAL_CONTROLLERS, thr>>
                /\ IF ctl[c].is_open
                   THEN ctl' = [ctl EXCEPT ![c].wpc = "write"]
                   ELSE \E opened \in Outcomes, foreign \in Outcomes :
                          IF ~opened
                          THEN ctl' = [ctl EXCEPT ![c] = Failed(c, j, "SerialException")]
                          ELSE IF FlockFree(c) /\ foreign
                          THEN ctl' = [ctl EXCEPT ![c].is_open = TRUE, ![c].locked = TRUE,
                                                  ![c].opens = @ + 1,
                                                  ![c].wpc = "write"]
                          ELSE ctl' = [ctl EXCEPT ![c] = Refused(c, j)]
    /\ UNCHANGED <<nctl, lastOp, hist, ncalls, env, srv, cli>>

(* self._write(job.message): serial.write, then the settle delay.          *)
execute_write(c) ==
    /\ ctl[c].thread = "alive"
    /\ ctl[c].wpc = "write"
    /\ LET j == ctl[c].wjob IN
       \E ok \in Outcomes :
          IF ok
          THEN /\ lastOp' = [lastOp EXCEPT ![ctl[c].port] = j.uuid]
               /\ thr' = Performed(j, "write")
               /\ ctl' = [ctl EXCEPT ![c].wpc = IF j.type = "QUERY" THEN "read" ELSE "notify"]
          ELSE /\ ctl' = [ctl EXCEPT ![c] = Failed(c, j, "TransportIOError")]
               /\ UNCHANGED <<lastOp, thr>>
    /\ UNCHANGED <<SERIAL_CONTROLLERS, nctl, hist, ncalls, env, srv, cli>>

(* response = self.serial.readline()[:-2].decode("utf-8");                 *)
(* self.job_results[job.uuid] = response                                   *)
execute_readline(c) ==
    /\ ctl[c].thread = "alive"
    /\ ctl[c].wpc = "read"
    /\ LET j == ctl[c].wjob IN
       \E ok \in Outcomes, line \in env.lines :
          IF ok
          THEN LET response == Response(line) IN
               /\ lastOp' = [lastOp EXCEPT ![ctl[c].port] = j.uuid]
               /\ thr' = Received(j, line)
               /\ IF response.ok
                  THEN ctl' = [ctl EXCEPT ![c].wpc = "notify",
                                  ![c].job_results =
                                      Store(c, j, [kind |-> "str", what |-> response.text,
                                                   src |-> j.uuid])]
                  ELSE ctl' = [ctl EXCEPT ![c] = Failed(c, j, "UnicodeDecodeError")]
          ELSE /\ ctl' = [ctl EXCEPT ![c] = Failed(c, j, "TransportIOError")]
               /\ UNCHANGED <<lastOp, thr>>
    /\ UNCHANGED <<SERIAL_CONTROLLERS, nctl, hist, ncalls, env, srv, cli>>

(* job.condition.notify(), leaving the with block, job_queue.task_done().  *)
(* task_done raises ValueError when no put counted the task.               *)
run_notify(c) ==
    /\ ctl[c].thread = "alive"
    /\ ctl[c].wpc = "notify"
    /\ LET j == ctl[c].wjob IN
        /\ thr' = [t \in Threads |->
                     IF thr[t].pc = "waiting" /\ thr[t].job.uuid = j.uuid
                     THEN [thr[t] EXCEPT !.pc = "woken"] ELSE thr[t]]
        /\ IF ctl[c].unfinished_tasks = 0
           THEN ctl' = [ctl EXCEPT ![c] = [Exited(c) EXCEPT !.wjob = NoJob]]
           ELSE ctl' = [ctl EXCEPT ![c].wpc = "loop", ![c].wjob = NoJob,
                                   ![c].unfinished_tasks = @ - 1]
    /\ UNCHANGED <<SERIAL_CONTROLLERS, nctl, lastOp, hist, ncalls, env, srv, cli>>

----------------------------------------------------------------------------
(* The server (src/labby/server.py): request kinds, the wire frame, the    *)
(* handlers and the request loop of Server._run.                           *)

(* _ALL_REQUEST_TYPES: every ServerRequest subclass, under its class name. *)
ALL_REQUEST_TYPES ==
    {"HaltRequest", "HelloWorldRequest", "ListDevicesRequest", "DeviceInfoRequest"}

(* get_response_type: the type argument of ServerRequest[...] of the kind. *)
get_response_type(klass) ==
    CASE klass = "HaltRequest" -> "None"
      [] klass = "HelloWorldRequest" -> "HelloWorldResponse"
      [] klass = "ListDevicesRequest" -> "ListDevicesResponse"
      [] klass = "DeviceInfoRequest" -> "DeviceInfoResponse"

(* config.devices: the configured devices, in the order of the file.       *)
DeviceNames == <<"dev1", "dev2", "dev3", "dev4">>

Devices == 1..NumDevices

(* DeviceType: the kind the handlers single out, and a kind that is not it. *)
DeviceTypes == <<"POWER_SUPPLY", "OTHER">>

Config ==
    [i \in Devices |->
        [name |-> DeviceNames[i], device_type |-> DeviceTypes[2 - (i % 2)]]]

(* A frame is a sequence of pieces: a piece is a type tag, the separator,  *)
(* or a msgpack payload.  The payload of a request without fields is the   *)
(* empty map; that of DeviceInfoRequest carries the device name.           *)
Separator == ":"
EmptyMap == "{}"
NotMsgpack == "junk"

NoRequest == [type |-> "None", device_name |-> ""]

Requests ==
    {[type |-> k, device_name |-> ""] :
        k \in {"HaltRequest", "HelloWorldRequest", "ListDevicesRequest"}}
    \cup {[type |-> "DeviceInfoRequest", device_name |-> n] :
            n \in {Config[i].name : i \in Devices} \cup {"nodev"}}

(* request.to_msgpack()                                                    *)
to_msgpack(request) ==
    IF request.type = "DeviceInfoRequest" THEN <<request.device_name>> ELSE <<EmptyMap>>

(* Client._send / Client._query: type(request).__name__ + b":" + payload   *)
Encode(request) == <<request.type, Separator>> \o to_msgpack(request)

(* The frames the socket may deliver: those a client builds, a frame with  *)
(* an unregistered tag, one without separator, and ones whose payload      *)
(* does not decode into the kind's fields.                                 *)
Frames ==
    {Encode(r) : r \in Requests}
    \cup {<<"NoSuchRequest", Separator, EmptyMap>>,
          <<"HelloWorldRequest">>,
          <<"HelloWorldRequest", Separator, NotMsgpack>>,
          <<"DeviceInfoRequest", Separator, EmptyMap>>}

(* msg.split(b":", 1): the position of the first separator, 0 if none.     *)
SplitAt(msg) ==
    IF \E i \in DOMAIN msg : msg[i] = Separator
    THEN CHOOSE i \in DOMAIN msg :
            msg[i] = Separator /\ \A k \in 1..(i - 1) : msg[k] # Separator
    ELSE 0

(* klass.from_msgpack(msg): the request, or type "None" when the payload   *)
(* is no msgpack or lacks a field of the kind.                             *)
from_msgpack(klass, msg) ==
    IF Len(msg) # 1 \/ msg[1] = NotMsgpack THEN NoRequest
    ELSE IF klass = "DeviceInfoRequest"
         THEN IF msg[1] = EmptyMap THEN NoRequest
              ELSE [type |-> klass, device_name |-> msg[1]]
    ELSE [type |-> klass, device_name |-> ""]

(* What one device's operations do in one dispatch: which of open,         *)
(* test_connection and the getters is the first to raise, if any, and      *)
(* whether close returns (TRUE) or raises.                                 *)
DeviceOutcomes == [raises : {"None", "open", "test_connection", "read"}, close : BOOLEAN]

NoStatus == [name |-> "", is_available |-> FALSE, error_type |-> "None",
             error_message |-> "None"]

NoResponse ==
    [type |-> "None", content |-> "", devices |-> <<>>, device_type |-> "None",
     is_connected |-> FALSE, error_type |-> "None", error_message |-> "None",
     power_supply_info |-> FALSE]

(* What a handler does: kind "return" with a response (type "None" for no  *)
(* response), "exit" for SystemExit, "raise" for any other exception; ops  *)
(* is the sequence of device operations it called, each with the device,   *)
(* the operation and whether it returned.                                  *)
Returns(response, ops) == [kind |-> "return", response |-> response, ops |-> ops]
Raises(what, ops) ==
    [kind |-> "raise", response |-> [NoResponse EXCEPT !.error_type = what], ops |-> ops]

(* A Halt handler that returns None.                                       *)
HaltRequest_handle_returns == Returns(NoResponse, <<>>)

(* HaltRequest.handle: sys.exit(0)                                         *)
HaltRequest_handle == [kind |-> "exit", response |-> NoResponse, ops |-> <<>>]


(* HelloWorldRequest.handle                                                *)
HelloWorldRequest_handle ==
    Returns([NoResponse EXCEPT !.type = "HelloWorldResponse", !.content = "Hello world"],
            <<>>)

(* ListDevicesRequest._get_device_status(device): open and test           *)
(* _connection inside try, except Exception gives the unavailable status,  *)
(* finally device.close(); an exception of close() replaces the return.    *)
get_device_status(i, o) ==
    LET device == Config[i]
        tried == IF o.raises = "open" THEN <<(<<i, "open", FALSE>>)>>
                 ELSE <<(<<i, "open", TRUE>>),
                        (<<i, "test_connection", o.raises # "test_connection">>)>>
        ex == IF o.raises \in {"open", "test_connection"} THEN o.raises ELSE "None"
        status == IF ex = "None"
                  THEN [NoStatus EXCEPT !.name = device.name, !.is_available = TRUE]
                  ELSE [NoStatus EXCEPT !.name = device.name, !.error_type = "Exception",
                                        !.error_message = ex]
    IN  [status |-> status, ops |-> Append(tried, <<i, "close", o.close>>),
         raised |-> ~o.close]

(* [self._get_device_status(device) for device in config.devices], from    *)
(* device i on: stops at the first device whose status raises.             *)
RECURSIVE device_statuses(_, _)
device_statuses(i, out) ==
    IF i > NumDevices THEN [devices |-> <<>>, ops |-> <<>>, raised |-> FALSE]
    ELSE LET one == get_device_status(i, out[i]) IN
         IF one.raised THEN [devices |-> <<>>, ops |-> one.ops, raised |-> TRUE]
         ELSE LET rest == device_statuses(i + 1, out)
              IN  [devices |-> <<one.status>> \o rest.devices,
                   ops |-> one.ops \o rest.ops, raised |-> rest.raised]

(* ListDevicesRequest.handle                                               *)
ListDevicesRequest_handle(out) ==
    LET r == device_statuses(1, out) IN
    IF r.raised THEN Raises("Exception", r.ops)
    ELSE Returns([NoResponse EXCEPT !.type = "ListDevicesResponse",
                                    !.devices = r.devices], r.ops)

(* A lookup that falls back to the first configured device.                *)
find_device_or_first(device_name) ==
    IF \E i \in Devices : Config[i].name = device_name
    THEN {i \in Devices : Config[i].name = device_name}
    ELSE {1}

(* device for device in config.devices if device.name == self.device_name: *)
(* the devices next() chooses from; none of them gives StopIteration.      *)
find_device(device_name) ==
    {i \in Devices : Config[i].name = device_name}

(* DeviceInfoRequest.handle: look the device up by name; _get_device_info  *)
(* (open, test_connection, the power supply's getters) inside try; then    *)
(* _get_key_name(device.device_type), outside it.                          *)
DeviceInfoRequest_handle(request, out) ==
    LET found == find_device(request.device_name) IN
    IF found = {}
    THEN Returns([NoResponse EXCEPT !.type = "DeviceInfoResponse"], <<>>)
    ELSE LET i == CHOOSE k \in found : \A m \in found : k <= m
             o == out[i]
             isPsu == Config[i].device_type = "POWER_SUPPLY"
             ops == IF o.raises = "open" THEN <<(<<i, "open", FALSE>>)>>
                    ELSE IF o.raises = "test_connection" \/ ~isPsu
                         THEN <<(<<i, "open", TRUE>>),
                                (<<i, "test_connection", o.raises # "test_connection">>)>>
                    ELSE <<(<<i, "open", TRUE>>), (<<i, "test_connection", TRUE>>),
                           (<<i, "read", o.raises # "read">>)>>
             ex == IF o.raises \in {"open", "test_connection"} THEN o.raises
                   ELSE IF ~isPsu THEN "NotImplementedError"
                   ELSE o.raises
         IN  IF ~isPsu THEN Raises("NotImplementedError", ops)
             ELSE IF ex = "None"
             THEN Returns([NoResponse EXCEPT !.type = "DeviceInfoResponse",
                                             !.device_type = Config[i].device_type,
                                             !.is_connected = TRUE,
                                             !.power_supply_info = TRUE], ops)
             ELSE Returns([NoResponse EXCEPT !.type = "DeviceInfoResponse",
                                             !.device_type = Config[i].device_type,
                                             !.error_type = "Exception",
                                             !.error_message = ex], ops)

(* request.handle(config)                                                  *)
handle(request, out) ==
    CASE request.type = "HaltRequest" -> HaltRequest_handle
      [] request.type = "HelloWorldRequest" -> HelloWorldRequest_handle
      [] request.type = "ListDevicesRequest" -> ListDevicesRequest_handle(out)
      [] request.type = "DeviceInfoRequest" -> DeviceInfoRequest_handle(request, out)

(* ServerRequest.handle_from_msgpack(config, msg): split at the first      *)
(* separator (ValueError without one), look the tag up (KeyError when it   *)
(* is not registered), decode the payload, call the handler.               *)
handle_from_msgpack(msg, out) ==
    LET at == SplitAt(msg)
        request_type == SubSeq(msg, 1, at - 1)
        payload == SubSeq(msg, at + 1, Len(msg))
    IN  IF at = 0 THEN Raises("ValueError", <<>>)
        ELSE IF Len(request_type) # 1 \/ request_type[1] \notin ALL_REQUEST_TYPES
        THEN Raises("KeyError", <<>>)
        ELSE LET request == from_msgpack(request_type[1], payload) IN
             IF request = NoRequest THEN Raises("DecodeError", <<>>)
             ELSE handle(request, out)

NoResult == [kind |-> "none", response |-> NoResponse, ops |-> <<>>]

(* No server process.                                                      *)
NoServer == [state |-> "off"]

(* Server.start in the child process: the server before _run, with what    *)
(* it has received, dispatched and sent so far.                            *)
NewServer ==
    [state |-> "starting", pc |-> "-", message |-> <<>>, response |-> NoResponse,
     nrecv |-> 0, ndispatched |-> 0, nsent |-> 0, replies |-> 0,
     last |-> <<>>, result |-> NoResult]

(* Server._run up to the loop: discover the drivers, read the              *)
(* configuration file (open() raises when it cannot be read).              *)
server_run(readable) ==
    /\ srv.state = "starting"
    /\ srv' = IF readable THEN [srv EXCEPT !.state = "serving", !.pc = "recv"]
              ELSE [srv EXCEPT !.state = "crashed"]
    /\ UNCHANGED <<serialVars, cli>>

(* message = socket.recv()                                                 *)
socket_recv(frame) ==
    /\ srv.state = "serving"
    /\ srv.pc = "recv"
    /\ srv.nrecv < MaxFrames
    /\ srv' = [srv EXCEPT !.pc = "dispatch", !.message = frame, !.nrecv = @ + 1,
                          !.replies = 0]
    /\ UNCHANGED <<serialVars, cli>>

(* response = ServerRequest.handle_from_msgpack(config, message): an       *)
(* exception leaves the loop and _run; a response that is not None goes on *)
(* to socket.send.                                                         *)
dispatch(out) ==
    /\ srv.state = "serving"
    /\ srv.pc = "dispatch"
    /\ LET r == handle_from_msgpack(srv.message, out)
           done == [srv EXCEPT !.ndispatched = @ + 1, !.last = srv.message,
                               !.message = <<>>, !.result = r]
       IN  srv' = CASE r.kind = "exit" -> [done EXCEPT !.state = "halted", !.pc = "-"]
                    [] r.kind = "raise" -> [done EXCEPT !.state = "crashed", !.pc = "-"]
                    [] r.kind = "return" /\ r.response.type = "None" ->
                           [done EXCEPT !.pc = "recv"]
                    [] OTHER -> [done EXCEPT !.pc = "send", !.response = r.response]
    /\ UNCHANGED <<serialVars, cli>>

(* socket.send(response)                                                   *)
socket_send ==
    /\ srv.state = "serving"
    /\ srv.pc = "send"
    /\ srv' = [srv EXCEPT !.pc = "recv", !.response = NoResponse, !.nsent = @ + 1,
                          !.replies = @ + 1]
    /\ UNCHANGED <<serialVars, cli>>

----------------------------------------------------------------------------
(* The client (src/labby/server.py, class Client): one Req0 socket; every  *)
(* send and receive on it is logged in order.                              *)

(* No client.                                                              *)
NoClient == [state |-> "off"]

(* Client.__init__: Req0(dial=address)                                     *)
NewClient ==
    [state |-> "open", pc |-> "idle", request |-> NoRequest, log |-> <<>>,
     ncalls |-> 0, returned |-> "None"]

(* What req.recv() may deliver: the msgpack of a response of some type.    *)
WireResponses ==
    {"HelloWorldResponse", "ListDevicesResponse", "DeviceInfoResponse"}

(* self.req.send(type(request).__name__.encode() + b":" + payload)         *)
req_send(request) ==
    [cli EXCEPT !.request = request, !.ncalls = @ + 1, !.returned = "None",
                !.log = Append(@, <<"send", Encode(request)>>)]

(* Client._send(request): the send, and the call returns.                  *)
Client_send(request) ==
    /\ cli.state = "open"
    /\ cli.pc = "idle"
    /\ cli.ncalls < MaxClientCalls
    /\ get_response_type(request.type) = "None"
    /\ cli' = [req_send(request) EXCEPT !.pc = "idle"]
    /\ UNCHANGED <<serialVars, srv>>

(* Client.halt                                                             *)
Client_halt == Client_send([type |-> "HaltRequest", device_name |-> ""])

(* Client._query(request), first half: the send; then response_type is     *)
(* looked up and the call blocks in req.recv().                            *)
Client_query_send(request) ==
    /\ cli.state = "open"
    /\ cli.pc = "idle"
    /\ cli.ncalls < MaxClientCalls
    /\ get_response_type(request.type) # "None"
    /\ cli' = [req_send(request) EXCEPT !.pc = "recv"]
    /\ UNCHANGED <<serialVars, srv>>

(* Client._query(request), second half: response = self.req.recv();        *)
(* return response_type.from_msgpack(response), which raises when the      *)
(* bytes are no response of that type.                                     *)
Client_query_recv(response) ==
    /\ cli.state = "open"
    /\ cli.pc = "recv"
    /\ cli' = [cli EXCEPT !.pc = "idle",
                          !.log = Append(@, <<"recv", <<response>> >>),
                          !.returned =
                              IF response = get_response_type(cli.request.type)
                              THEN response ELSE "DecodeError"]
    /\ UNCHANGED <<serialVars, srv>>

(* Client.hello / list_devices / device_info                               *)
Client_hello == Client_query_send([type |-> "HelloWorldRequest", device_name |-> ""])
Client_list_devices == Client_query_send([type |-> "ListDevicesRequest", device_name |-> ""])
Client_device_info(device_name) ==
    Client_query_send([type |-> "DeviceInfoRequest", device_name |-> device_name])

(* Client.close: self.req.close()                                          *)
Client_close ==
    /\ cli.state = "open"
    /\ cli.pc = "idle"
    /\ cli' = [cli EXCEPT !.state = "closed"]
    /\ UNCHANGED <<serialVars, srv>>

----------------------------------------------------------------------------
(* Specifications *)

InitWith(n, budget, faults) ==
    /\ SERIAL_CONTROLLERS = [p \in Ports |-> NoCtl]
    /\ nctl = 0
    /\ ctl = [c \in Controllers |-> NoController]
    /\ thr = [t \in 1..n |-> NewThread("A")]
    /\ lastOp = [p \in Ports |-> NoUuid]
    /\ hist = [p \in Ports |-> [acquired |-> 0, released |-> 0]]
    /\ ncalls = 0
    /\ env = [faults |-> faults, budget |-> budget, lines |-> {TerminatedLine}]
    /\ srv = NoServer
    /\ cli = NoClient

Caller(t) ==
    \/ get_or_create(t)
    \/ start_if_not_alive(t)
    \/ write(t)
    \/ query(t)
    \/ close(t)
    \/ run_and_wait_wait(t)
    \/ read_result(t)

Worker(c) ==
    \/ run_loop(c)
    \/ run_get(c)
    \/ execute_job(c)
    \/ execute_write(c)
    \/ execute_readline(c)
    \/ run_notify(c)

(* The program: caller threads using their devices by the open / use /     *)
(* close protocol, the transport free to fail.                             *)
Init == InitWith(NumThreads, MaxCalls, TRUE)

Next ==
    \/ \E t \in ThreadIds : Caller(t)
    \/ \E c \in Controllers : Worker(c)

Spec == Init /\ [][Next]_vars

(* The same program with one more call, enough for two workers of one port *)
(* to both reach the transport.                                            *)
InitRace == InitWith(NumThreads, RaceCalls, TRUE)

SpecRace == InitRace /\ [][Next]_vars

(* Four callers sharing one port, the transport never failing.  The       *)
(* behaviour starts where four devices have opened the port one after the  *)
(* other: the first open made and started controller 1, the others reuse   *)
(* it; then FifoCalls more calls are made.                                 *)
InitFifo ==
    /\ SERIAL_CONTROLLERS = [p \in Ports |-> IF p = "A" THEN 1 ELSE NoCtl]
    /\ nctl = 1
    /\ ctl = [c \in Controllers |->
                IF c = 1 THEN [NewController("A") EXCEPT !.num_clients = NumFifoThreads,
                                                         !.thread = "alive", !.wpc = "loop"]
                ELSE NoController]
    /\ thr = [t \in 1..NumFifoThreads |->
                [NewThread("A") EXCEPT !.mode = "open", !.dev = 1, !.sc = 1, !.holding = 1,
                                       !.calls = 1,
                                       !.outcome = [NoOutcome EXCEPT !.kind = "ok"]]]
    /\ lastOp = [p \in Ports |-> NoUuid]
    /\ hist = [p \in Ports |-> [acquired |-> IF p = "A" THEN NumFifoThreads ELSE 0,
                                 released |-> 0]]
    /\ ncalls = NumFifoThreads
    /\ env = [faults |-> FALSE, budget |-> NumFifoThreads + FifoCalls,
              lines |-> {TerminatedLine}]
    /\ srv = NoServer
    /\ cli = NoClient

SpecFifo == InitFifo /\ [][Next]_vars

(* Jobs of either priority: besides the public calls, a caller may hand    *)
(* _run_and_wait a job built with priority HIGH.                           *)
run_and_wait_high(t) ==
    \E type \in {"WRITE", "QUERY"} : run_and_wait_put(t, type, "HIGH")

InitPrio == InitWith(NumThreads, PrioCalls, FALSE)

NextPrio ==
    \/ Next
    \/ \E t \in ThreadIds : run_and_wait_high(t)

SpecPrio == InitPrio /\ [][NextPrio]_vars

(* Callers that may also call close() on a device they closed before.      *)
InitAgain == InitWith(NumThreads, AgainCalls, TRUE)

NextAgain ==
    \/ Next
    \/ \E t \in ThreadIds : close_again(t)

SpecAgain == InitAgain /\ [][NextAgain]_vars

(* Callers that may also call write, query and close on a device that is   *)
(* not open: never opened, or closed before.                               *)
InitFacade == InitWith(NumThreads, FacadeCalls, FALSE)

NextFacade ==
    \/ Next
    \/ \E t \in ThreadIds : write_again(t)
    \/ \E t \in ThreadIds : query_again(t)
    \/ \E t \in ThreadIds : close_again(t)
    \/ \E t \in ThreadIds : serial_controller_none(t)

SpecFacade == InitFacade /\ [][NextFacade]_vars

(* Devices on two ports: the first caller's device is on port A, the       *)
(* others' on port B; no other process touches the ports.                  *)
InitPorts ==
    /\ SERIAL_CONTROLLERS = [p \in Ports |-> NoCtl]
    /\ nctl = 0
    /\ ctl = [c \in Controllers |-> NoController]
    /\ thr = [t \in 1..NumThreads |-> NewThread(IF t = 1 THEN "A" ELSE "B")]
    /\ lastOp = [p \in Ports |-> NoUuid]
    /\ hist = [p \in Ports |-> [acquired |-> 0, released |-> 0]]
    /\ ncalls = 0
    /\ env = [faults |-> FALSE, budget |-> PortsCalls, lines |-> {TerminatedLine}]
    /\ srv = NoServer
    /\ cli = NoClient

SpecPorts == InitPorts /\ [][Next]_vars

(* One device whose transport may answer a query with any line.            *)
InitLine ==
    /\ SERIAL_CONTROLLERS = [p \in Ports |-> NoCtl]
    /\ nctl = 0
    /\ ctl = [c \in Controllers |-> NoController]
    /\ thr = [t \in 1..1 |-> NewThread("A")]
    /\ lastOp = [p \in Ports |-> NoUuid]
    /\ hist = [p \in Ports |-> [acquired |-> 0, released |-> 0]]
    /\ ncalls = 0
    /\ env = [faults |-> FALSE, budget |-> LineCalls, lines |-> Lines]
    /\ srv = NoServer
    /\ cli = NoClient

SpecLine == InitLine /\ [][Next]_vars

(* The server process, from its start: it receives up to MaxFrames frames; *)
(* its devices' operations may raise.                                      *)
InitServer ==
    /\ SERIAL_CONTROLLERS = [p \in Ports |-> NoCtl]
    /\ nctl = 0
    /\ ctl = [c \in Controllers |-> NoController]
    /\ thr = [t \in 1..NumThreads |-> NewThread("A")]
    /\ lastOp = [p \in Ports |-> NoUuid]
    /\ hist = [p \in Ports |-> [acquired |-> 0, released |-> 0]]
    /\ ncalls = 0
    /\ env = [faults |-> TRUE, budget |-> 0, lines |-> {TerminatedLine}]
    /\ srv = NewServer
    /\ cli = NoClient

NextServer ==
    \/ \E readable \in BOOLEAN : server_run(readable)
    \/ \E frame \in Frames : socket_recv(frame)
    \/ \E out \in [Devices -> DeviceOutcomes] : dispatch(out)
    \/ socket_send

SpecServer == InitServer /\ [][NextServer]_vars

(* One client connection, from its construction: up to MaxClientCalls      *)
(* calls of hello, list_devices, device_info and halt in any order, then   *)
(* close.                                                                  *)
InitClient ==
    /\ SERIAL_CONTROLLERS = [p \in Ports |-> NoCtl]
    /\ nctl = 0
    /\ ctl = [c \in Controllers |-> NoController]
    /\ thr = [t \in 1..NumThreads |-> NewThread("A")]
    /\ lastOp = [p \in Ports |-> NoUuid]
    /\ hist = [p \in Ports |-> [acquired |-> 0, released |-> 0]]
    /\ ncalls = 0
    /\ env = [faults |-> FALSE, budget |-> 0, lines |-> {TerminatedLine}]
    /\ srv = NoServer
    /\ cli = NewClient

NextClient ==
    \/ Client_halt
    \/ Client_hello
    \/ Client_list_devices
    \/ \E r \in Requests :
          r.type = "DeviceInfoRequest" /\ Client_device_info(r.device_name)
    \/ \E response \in WireResponses : Client_query_recv(response)
    \/ Client_close

SpecClient == InitClient /\ [][NextClient]_vars

----------------------------------------------------------------------------
(* Properties *)

Constructed(c) == ctl[c].thread # "none"

(* The callers that acquired a controller of port p and have not had their *)
(* CLOSE job executed yet.                                                 *)
Holders(p) == {t \in Threads : thr[t].port = p /\ thr[t].holding # NoCtl}

(* A worker takes a job off its queue in this step.                        *)
Dequeues(c) == ctl[c].wpc = "get" /\ ctl'[c].wpc = "exec"

(* C1: at most one arbitrator worker of a port is live (started and not    *)
(* yet exited) at any time, whatever the interleaving of opens and closes. *)
C1_OneLiveWorkerPerPort ==
    \A c, d \in Controllers :
        (is_alive(c) /\ is_alive(d) /\ ctl[c].port = ctl[d].port) => c = d

InTransport(c) == is_alive(c) /\ ctl[c].is_open /\ ctl[c].wpc \in {"write", "read"}

(* C2: per port, job executions exclude each other on the transport: no    *)
(* two workers of one port are inside the transport part of a job at once, *)
(* and between the write and the readline of a QUERY job no other job's    *)
(* transport operation takes place on the port.                            *)
C2_TransportExclusive ==
    /\ \A c, d \in Controllers :
          (InTransport(c) /\ InTransport(d) /\ ctl[c].port = ctl[d].port) => c = d
    /\ \A c \in Controllers :
          (is_alive(c) /\ ctl[c].wpc = "read") => lastOp[ctl[c].port] = ctl[c].wjob.uuid

(* C3: whenever the worker dequeues a LOW job no HIGH job is pending in    *)
(* its queue, and enqueueing jobs of different priorities into one queue   *)
(* succeeds (no put raises).                                               *)
C3_HighBeforeLow ==
    [][ /\ \A c \in Controllers :
              (Dequeues(c) /\ ctl'[c].wjob.priority = "LOW") =>
                  \A i \in DOMAIN ctl[c].job_queue :
                      ctl[c].job_queue[i].priority # "HIGH"
        /\ \A t \in Threads : thr'[t].outcome.what # "TypeError" ]_vars

(* C4: jobs of equal priority are dequeued in the order they were          *)
(* enqueued: the job the worker holds was enqueued before every job of the *)
(* same priority still pending.                                            *)
C4_FifoWithinPriority ==
    \A c \in Controllers :
        ctl[c].wjob # NoJob =>
            \A i \in DOMAIN ctl[c].job_queue :
                ctl[c].job_queue[i].priority = ctl[c].wjob.priority
                    => ctl[c].wjob.seq < ctl[c].job_queue[i].seq

Returned(t) == thr[t].pc = "idle" /\ thr[t].outcome.kind \in {"None", "str"}

(* C5: a write() that has returned had its transport write performed by    *)
(* the worker, a query() that has returned had its write and its readline  *)
(* performed: no call returns before its own job was executed.             *)
C5_ReturnsAfterExecution ==
    \A t \in Threads :
        Returned(t) =>
            /\ thr[t].job.type = "WRITE" => thr[t].io = {"write"}
            /\ thr[t].job.type = "QUERY" => thr[t].io = {"write", "readline"}

C5_Witness ==
    \E t, u \in Threads :
        /\ Returned(t) /\ thr[t].job.type = "WRITE"
        /\ Returned(u) /\ thr[u].job.type = "QUERY"

Delivered(t) ==
    /\ thr[t].pc = "idle"
    /\ thr[t].outcome.kind \in {"str", "exc"}
    /\ thr[t].outcome.src # NoUuid

(* C6: the result or error a call delivers is the one produced while the   *)
(* worker executed that call's own job, and no two callers receive the     *)
(* outcome of the same job.                                                *)
C6_OwnOutcomeOnly ==
    /\ \A t \in Threads : Delivered(t) => thr[t].outcome.src = thr[t].job.uuid
    /\ \A t, u \in Threads :
          (Delivered(t) /\ Delivered(u) /\ thr[t].outcome.src = thr[u].outcome.src) => t = u

C6_Witness ==
    \E t, u \in Threads :
        /\ t # u
        /\ Delivered(t) /\ thr[t].outcome.what = "TransportIOError"
        /\ thr[u].pc = "waiting" /\ thr[u].dev = thr[t].dev

(* C7: after a job failed on a worker, the worker still serves callers     *)
(* holding an unreleased handle: none of them waits on a worker that has   *)
(* left its loop.                                                          *)
C7_WorkerSurvivesFailure ==
    \A c \in Controllers : \A t \in Threads :
        (ctl[c].failed /\ thr[t].holding = c /\ thr[t].dev = c /\ thr[t].pc = "waiting")
            => is_alive(c)

(* C8: when M callers have opened a port and none has released, all M hold *)
(* the same controller, it is the registry's entry of the port and its     *)
(* client count is M.                                                      *)
C8_ConcurrentOpensShare ==
    \A p \in Ports :
        (hist[p].released = 0 /\ Holders(p) # {}) =>
            \E c \in Controllers :
                /\ SERIAL_CONTROLLERS[p] = c
                /\ \A t \in Holders(p) : thr[t].holding = c
                /\ ctl[c].num_clients = Cardinality(Holders(p))

AtRest ==
    /\ \A t \in Threads : thr[t].pc = "idle"
    /\ \A c \in Controllers :
          is_alive(c) => (ctl[c].wpc = "get" /\ ctl[c].job_queue = <<>>)

(* C9: once as many closes as opens were issued on a port and every caller *)
(* and worker has come to rest, the port has no registry entry, every      *)
(* worker of the port has left its loop and closed its transport once.     *)
C9_ClosedAfterLastRelease ==
    \A p \in Ports :
        (hist[p].acquired >= 1 /\ hist[p].acquired = hist[p].released /\ AtRest) =>
            /\ SERIAL_CONTROLLERS[p] = NoCtl
            /\ \A c \in Controllers :
                  (Constructed(c) /\ ctl[c].port = p) =>
                      (ctl[c].thread = "dead" /\ ctl[c].closes = 1)

(* C10: while a caller that acquired a controller has not released it, the *)
(* port keeps its registry entry and the controller's worker stays in its  *)
(* loop; and a registry entry is only ever removed by the controller it    *)
(* names, executing a CLOSE job.                                           *)
C10_RemovedByOwnLastClose ==
    [][ /\ \A t \in Threads :
              thr'[t].holding # NoCtl =>
                  /\ SERIAL_CONTROLLERS'[thr'[t].port] # NoCtl
                  /\ ctl'[thr'[t].holding].thread # "dead"
        /\ \A p \in Ports :
              (SERIAL_CONTROLLERS[p] # NoCtl /\ SERIAL_CONTROLLERS'[p] = NoCtl) =>
                  LET c == SERIAL_CONTROLLERS[p] IN
                      ctl[c].wpc = "exec" /\ ctl'[c].wpc = "notify" ]_vars

(* C11: the client count of a controller is never negative, whatever the   *)
(* sequence and interleaving of open and close calls, a close handed to a  *)
(* worker that kept running after its count reached zero included.         *)
C11_ClientCountNotNegative ==
    \A c \in Controllers : ctl[c].num_clients >= 0

(* C12: the worker is at a transport operation (serial.write or            *)
(* serial.readline) only while it holds the exclusive lock on the          *)
(* transport; in particular a job that follows a failed lock acquisition   *)
(* does not reach the transport without a successful acquisition.          *)
C12_TransportOnlyWhileLocked ==
    \A c \in Controllers :
        (is_alive(c) /\ ctl[c].wpc \in {"write", "read"}) => ctl[c].locked

(* The close() call of thread t has returned normally and left the         *)
(* controller without clients.                                             *)
LastCloseReturned(t) ==
    /\ thr[t].pc = "idle"
    /\ thr[t].mode = "closed"
    /\ thr[t].job.type = "CLOSE"
    /\ thr[t].outcome.kind = "None"
    /\ ctl[thr[t].dev].num_clients = 0

(* C13: when the close() call of the last client of a port has returned,   *)
(* the transport has already been closed, exactly once.                    *)
C13_ClosedWhenCloseReturns ==
    \A t \in Threads :
        LastCloseReturned(t) => ctl[thr[t].dev].closes = 1

(* The worker of controller c holds a WRITE or QUERY job that its caller   *)
(* has handed over (the caller waits on the job's condition).              *)
ExecutingJob(c) ==
    /\ is_alive(c)
    /\ ctl[c].wpc \in {"exec", "write", "read"}
    /\ ctl[c].wjob.type \in {"WRITE", "QUERY"}
    /\ ConditionFree(ctl[c].wjob)

(* The worker of controller c opens its transport and is refused the lock. *)
LockRefused(c) ==
    /\ ctl[c].wpc = "exec"
    /\ ~ctl[c].is_open
    /\ ctl'[c].is_open
    /\ ~ctl'[c].locked

(* C14: controllers of distinct ports are independent.  A worker holding a *)
(* WRITE or QUERY job can always take its next step, whatever the state of *)
(* the other ports' callers, jobs and workers; a job is queued at,         *)
(* executed by and has its transport operations on the controller of its   *)
(* own device's port only; and a worker is refused the lock only when      *)
(* another controller of the same port holds it.                           *)
C14_PortsIndependent ==
    /\ [](\A c \in Controllers : ExecutingJob(c) => ENABLED Worker(c))
    /\ [](\A c \in Controllers :
            /\ ctl[c].wjob # NoJob => thr[Owner(ctl[c].wjob)].port = ctl[c].port
            /\ \A i \in DOMAIN ctl[c].job_queue :
                  thr[Owner(ctl[c].job_queue[i])].port = ctl[c].port)
    /\ [](\A p \in Ports : lastOp[p] # NoUuid => thr[lastOp[p][1]].port = p)
    /\ [][\A c \in Controllers :
            LockRefused(c) =>
                \E d \in Controllers \ {c} : ctl[d].port = ctl[c].port /\ ctl[d].locked]_vars

(* Port B's worker is between the write and the readline of a QUERY while  *)
(* port A's worker, holding the lock of A, has performed a job's write.    *)
C14_Witness ==
    \E c, d \in Controllers :
        /\ ctl[c].port = "A" /\ ctl[d].port = "B"
        /\ is_alive(d) /\ ctl[d].wpc = "read" /\ ctl[d].locked
        /\ is_alive(c) /\ ctl[c].wpc = "notify" /\ ctl[c].locked
        /\ ctl[c].wjob.type = "WRITE"
        /\ thr[Owner(ctl[c].wjob)].io = {"write"}
        /\ lastOp["A"] = ctl[c].wjob.uuid
        /\ lastOp["B"] = ctl[d].wjob.uuid

(* The terminator of a line: CR LF, or LF alone, or nothing when the line  *)
(* was cut off by the timeout.                                             *)
TerminatorLen(line) ==
    IF Len(line) >= 2 /\ line[Len(line) - 1] = CR /\ line[Len(line)] = LF THEN 2
    ELSE IF Len(line) >= 1 /\ line[Len(line)] = LF THEN 1
    ELSE 0

StripTerminator(line) == SubSeq(line, 1, Len(line) - TerminatorLen(line))

QueryGotLine(t) ==
    /\ thr[t].pc = "idle"
    /\ thr[t].job.type = "QUERY"
    /\ "readline" \in thr[t].io
    /\ DecodeUtf8(thr[t].rx).ok

(* C15: a query whose readline returned a line of text (ending in CR LF,   *)
(* in LF only, without line end, or empty) returns that line decoded with  *)
(* exactly its terminator removed and no other byte.                       *)
C15_QueryStripsTerminatorOnly ==
    \A t \in Threads :
        QueryGotLine(t) =>
            /\ thr[t].outcome.kind = "str"
            /\ thr[t].outcome.what = DecodeUtf8(StripTerminator(thr[t].rx)).text

(* The request a frame carries when a client built it, else NoRequest.     *)
RequestOf(frame) ==
    IF \E r \in Requests : Encode(r) = frame
    THEN CHOOSE r \in Requests : Encode(r) = frame
    ELSE NoRequest

(* The last frame the server dispatched has a type tag and the tag is no   *)
(* registered request kind.                                                *)
DispatchedUnknownTag ==
    /\ srv.ndispatched > 0
    /\ SplitAt(srv.last) = 2
    /\ srv.last[1] \notin ALL_REQUEST_TYPES

(* C16: after the server dispatched a frame whose type tag is not a        *)
(* registered request kind it is still serving: the loop goes on to        *)
(* receive and answer the next request.                                    *)
C16_UnknownTagKeepsServing ==
    DispatchedUnknownTag => srv.state = "serving"

AtHaltDispatch ==
    srv.pc = "dispatch" /\ RequestOf(srv.message).type = "HaltRequest"

(* C17: dispatching a Halt request ends the request loop and sends no      *)
(* response for it; once the loop has ended that way the server receives,  *)
(* dispatches and sends nothing more.                                      *)
C17_HaltEndsLoopSilently ==
    /\ [][(AtHaltDispatch /\ srv' # srv) =>
              (srv'.state = "halted" /\ srv'.pc = "-" /\ srv'.nsent = srv.nsent)]_vars
    /\ [][srv.state = "halted" => srv' = srv]_vars
    /\ [](srv.state = "halted" =>
              /\ RequestOf(srv.last).type = "HaltRequest"
              /\ srv.replies = 0
              /\ srv.nrecv = srv.ndispatched
              /\ ~ENABLED NextServer)

(* The server answered requests and was then halted.                       *)
C17_Witness ==
    srv.state = "halted" /\ srv.nsent >= 1 /\ srv.nrecv >= 2

(* C18: the server stops serving only by dispatching a Halt request: no    *)
(* frame with an unknown tag, without separator or with an undecodable     *)
(* payload, and no handler whose device operation raises, ends the loop.   *)
C18_OnlyHaltStopsServing ==
    (srv.ndispatched > 0 /\ srv.state # "serving") =>
        (srv.state = "halted" /\ RequestOf(srv.last).type = "HaltRequest")

(* C19: the loop alternates receive, dispatch and send: a frame is         *)
(* dispatched before the next is received, and when the cycle of a         *)
(* request is over one response was sent if its kind has a response type   *)
(* and none if it is fire-and-forget.                                      *)
C19_OneResponsePerRequest ==
    /\ srv.pc = "dispatch" => srv.nrecv = srv.ndispatched + 1
    /\ srv.pc # "dispatch" => srv.nrecv = srv.ndispatched
    /\ (srv.ndispatched > 0 /\ srv.pc \in {"recv", "-"}
            /\ RequestOf(srv.last) # NoRequest) =>
           srv.replies =
               IF get_response_type(RequestOf(srv.last).type) = "None" THEN 0 ELSE 1

(* Device i's open or test_connection raised during the last dispatch.     *)
DeviceFailed(i) ==
    \E k \in DOMAIN srv.result.ops :
        /\ srv.result.ops[k][1] = i
        /\ srv.result.ops[k][2] \in {"open", "test_connection"}
        /\ ~srv.result.ops[k][3]

(* C20: the response to ListDevices has one status per configured device,  *)
(* in the order of the configuration, whichever of the devices' open,      *)
(* test_connection and close operations raise; a device is reported        *)
(* unavailable, with an error type and message, exactly when its open or   *)
(* test_connection raised.                                                 *)
C20_ListDevicesReportsEveryDevice ==
    (srv.ndispatched > 0 /\ RequestOf(srv.last).type = "ListDevicesRequest") =>
        /\ srv.result.kind = "return"
        /\ Len(srv.result.response.devices) = NumDevices
        /\ \A i \in Devices :
              LET status == srv.result.response.devices[i] IN
              /\ status.name = Config[i].name
              /\ status.is_available = ~DeviceFailed(i)
              /\ ~status.is_available =>
                    (status.error_type # "None" /\ status.error_message # "None")

(* The last frame the server dispatched is a client's DeviceInfo request   *)
(* for a name that no configured device has.                               *)
DispatchedUnknownDevice ==
    /\ srv.ndispatched > 0
    /\ RequestOf(srv.last).type = "DeviceInfoRequest"
    /\ \A i \in Devices : Config[i].name # RequestOf(srv.last).device_name

(* C21: a DeviceInfo request for a name that matches no configured device  *)
(* returns a response with is_connected false, no device type and no error *)
(* fields, and its handler calls no operation of any device: nothing is    *)
(* opened and no job reaches an arbitrator.                                *)
C21_UnknownDeviceNotConnected ==
    DispatchedUnknownDevice =>
        /\ srv.result.kind = "return"
        /\ srv.result.response.type = "DeviceInfoResponse"
        /\ ~srv.result.response.is_connected
        /\ srv.result.response.device_type = "None"
        /\ srv.result.response.error_type = "None"
        /\ srv.result.response.error_message = "None"
        /\ ~srv.result.response.power_supply_info
        /\ srv.result.ops = <<>>
        /\ srv.state = "serving"

(* The response to a DeviceInfo request for an unknown name was sent.      *)
C21_Witness ==
    DispatchedUnknownDevice /\ srv.pc = "recv" /\ srv.replies = 1

(* The last frame the server dispatched is a client's DeviceInfo request   *)
(* for the name of configured device i.                                    *)
DispatchedDeviceInfo(i) ==
    /\ srv.ndispatched > 0
    /\ RequestOf(srv.last).type = "DeviceInfoRequest"
    /\ RequestOf(srv.last).device_name = Config[i].name

(* An operation of device i raised during the last dispatch.               *)
DeviceRaised(i) ==
    \E k \in DOMAIN srv.result.ops :
        srv.result.ops[k][1] = i /\ ~srv.result.ops[k][3]

(* C22: the handler of a DeviceInfo request for a configured device always *)
(* returns a response, whatever the kind of the device and whichever of    *)
(* its operations raises: is_connected is false with error type and        *)
(* message set when something failed, and the server keeps serving.        *)
C22_DeviceInfoNeverPropagates ==
    \A i \in Devices :
        DispatchedDeviceInfo(i) =>
            /\ srv.result.kind = "return"
            /\ srv.result.response.type = "DeviceInfoResponse"
            /\ srv.state = "serving"
            /\ (DeviceRaised(i) \/ Config[i].device_type # "POWER_SUPPLY") =>
                  /\ ~srv.result.response.is_connected
                  /\ srv.result.response.error_type # "None"
                  /\ srv.result.response.error_message # "None"

(* C23: on one client connection sends and receives strictly alternate,    *)
(* whatever the sequence of hello, list_devices, device_info and halt      *)
(* calls: the first operation on the socket is a send, every send but the  *)
(* last is followed by a receive, and every receive follows a send.        *)
C23_SendsAndReceivesAlternate ==
    \A k \in DOMAIN cli.log :
        /\ cli.log[k][1] = "send" =>
              (k = 1 \/ cli.log[k - 1][1] = "recv")
        /\ cli.log[k][1] = "recv" =>
              (k > 1 /\ cli.log[k - 1][1] = "send")

(* Thread t is inside a write, query or close call made on its open        *)
(* device: its job is in the queue or being executed and the call has not  *)
(* been woken.                                                             *)
BlockedInCall(t) ==
    thr[t].mode = "open" /\ thr[t].pc \in {"put", "waiting"}

(* C24: a write(), query() or close() call made on a handle between its    *)
(* open and its own close is never left without a worker to complete it:   *)
(* while the caller is blocked in the call, the worker thread of the       *)
(* controller it handed the job to is alive, so that under fair scheduling *)
(* the job is executed and the caller woken.                               *)
C24_BlockedCallerHasLiveWorker ==
    \A t \in Threads :
        BlockedInCall(t) => ctl[thr[t].dev].thread = "alive"

(* Worker c leaves its loop in this step: the loop test fails and run()    *)
(* goes on to the assertion and the finally clause.                        *)
LeavesLoop(c) ==
    ctl[c].thread = "alive" /\ ctl[c].wpc = "loop" /\ ctl'[c].thread = "dead"

(* C25: a worker never leaves its loop with a job still pending in its     *)
(* queue: when the loop test fails after the last CLOSE, the queue is      *)
(* empty and the assertion at the loop's exit holds.                       *)
C25_QueueEmptyAtLoopExit ==
    [][\A c \in Controllers : LeavesLoop(c) => ctl[c].job_queue = <<>>]_vars

(* The last dispatch was a client's ListDevices or DeviceInfo request and  *)
(* its handler returned.                                                   *)
DeviceRequestCompleted ==
    /\ srv.ndispatched > 0
    /\ RequestOf(srv.last).type \in {"ListDevicesRequest", "DeviceInfoRequest"}
    /\ srv.result.kind = "return"

(* C26: every device opened while handling a request is closed before the  *)
(* handler returns: in the operations of a completed ListDevices or        *)
(* DeviceInfo request every open that returned is followed by a close of   *)
(* the same device that returned, so the request leaves no client behind   *)
(* on the device's arbitrator.                                             *)
C26_OpenedDevicesAreClosed ==
    DeviceRequestCompleted =>
        \A k \in DOMAIN srv.result.ops :
            LET i == srv.result.ops[k][1] IN
            srv.result.ops[k] = <<i, "open", TRUE>> =>
                \E m \in DOMAIN srv.result.ops :
                    m > k /\ srv.result.ops[m] = <<i, "close", TRUE>>

(* In this step the worker of controller c opened its transport and flock  *)
(* raised.                                                                 *)
FlockRaised(c) ==
    ctl'[c].opens = ctl[c].opens + 1 /\ ~ctl'[c].locked

(* The result map of controller c holds the refused lock's error for job j. *)
HoldsLockError(c, j) ==
    [uuid |-> j.uuid, val |-> Exc("BlockingIOError", j)] \in ctl[c].job_results

(* C27: when flock fails at the first open of the transport, the error is  *)
(* stored for the job that triggered the open, whose caller is waiting for *)
(* it, and that caller's call raises it; no other job's result is the lock *)
(* error; and the worker that was refused the lock makes no further        *)
(* attempt to acquire it for any later job.                                *)
C27_LockErrorToTriggeringJobOnly ==
    /\ [][\A c \in Controllers :
            FlockRaised(c) =>
                /\ ctl[c].opens = 0
                /\ thr[Owner(ctl[c].wjob)].job = ctl[c].wjob
                /\ thr[Owner(ctl[c].wjob)].pc = "waiting"
                /\ ctl'[c].job_results =
                       ctl[c].job_results
                           \cup {[uuid |-> ctl[c].wjob.uuid,
                                  val |-> Exc("BlockingIOError", ctl[c].wjob)]}]_vars
    /\ [][\A t \in Threads :
            (thr[t].pc = "woken" /\ thr'[t].pc = "idle"
                 /\ HoldsLockError(thr[t].dev, thr[t].job)) =>
                thr'[t].outcome = Exc("BlockingIOError", thr[t].job)]_vars
    /\ [](\A t \in Threads :
            thr[t].outcome.what = "BlockingIOError" =>
                (thr[t].outcome.src = thr[t].job.uuid /\ thr[t].io = {}))
    /\ [][\A c \in Controllers :
            (ctl[c].opens >= 1 /\ ~ctl[c].locked) =>
                ctl'[c].opens = ctl[c].opens]_vars

(* A caller was delivered the lock error of its write, and a later write   *)
(* of another caller of the same controller was performed.                 *)
C27_Witness ==
    \E t, u \in Threads :
        /\ t # u
        /\ thr[t].pc = "idle"
        /\ thr[t].outcome = Exc("BlockingIOError", thr[t].job)
        /\ thr[u].dev = thr[t].dev
        /\ thr[u].job.seq > thr[t].job.seq
        /\ thr[u].io = {"write"}
        /\ ctl[thr[t].dev].opens = 1

(* C28: the transport of a controller is opened only by its worker while   *)
(* it executes a WRITE or QUERY job and the transport is not open.  No     *)
(* other step (get_or_create, the worker's start, a CLOSE job) opens it,   *)
(* an open transport is never opened again, and the transport is open only *)
(* if such a job opened it: a controller is constructed with its transport *)
(* not open, and one that was only opened and closed never opens it.       *)
C28_OpenedOnlyByWriteOrQuery ==
    /\ [][\A c \in Controllers :
            (ctl'[c].opens # ctl[c].opens \/ (ctl'[c].is_open /\ ~ctl[c].is_open)) =>
                /\ is_alive(c)
                /\ ctl[c].wpc = "exec"
                /\ ctl[c].wjob.type \in {"WRITE", "QUERY"}
                /\ ~ctl[c].is_open
                /\ ctl'[c].is_open
                /\ ctl'[c].opens = ctl[c].opens + 1]_vars
    /\ [](\A c \in Controllers :
            /\ ctl[c].is_open => ctl[c].opens >= 1
            /\ ctl[c].thread = "new" => (~ctl[c].is_open /\ ctl[c].opens = 0))

(* A caller opened and closed its device with nothing in between: the      *)
(* worker has exited and the transport was never opened.  Another          *)
(* controller's worker opened its transport for a write.                   *)
C28_Witness ==
    /\ \E t \in Threads :
          /\ LastCloseReturned(t)
          /\ thr[t].calls = 2
          /\ ctl[thr[t].dev].thread = "dead"
          /\ ctl[thr[t].dev].opens = 0
    /\ \E c \in Controllers : ctl[c].is_open /\ ctl[c].opens = 1

(* The worker of controller c signals the completion of its job in this    *)
(* step.                                                                   *)
Notifies(c) ==
    is_alive(c) /\ ctl[c].wpc = "notify" /\ ctl'[c].wpc # "notify"

(* A completion is signalled to a caller that waits for it, and wakes it:  *)
(* no job is signalled twice, none is signalled to nobody.                 *)
SignalledAtMostOnce ==
    \A c \in Controllers :
        Notifies(c) =>
            LET t == Owner(ctl[c].wjob) IN
            /\ thr[t].job = ctl[c].wjob
            /\ thr[t].pc = "waiting"
            /\ thr'[t].pc = "woken"

(* A result is written for the job the worker is executing, into a slot    *)
(* that holds nothing.                                                     *)
ResultWrittenOnce ==
    \A c \in Controllers :
        \A e \in ctl'[c].job_results \ ctl[c].job_results :
            /\ e.uuid = ctl[c].wjob.uuid
            /\ ctl[c].wpc \in {"exec", "write", "read"}
            /\ \A f \in ctl[c].job_results : f.uuid # e.uuid

(* A thread is inside a write, query or close call on controller c.        *)
CallInFlight(c) ==
    \E t \in Threads : thr[t].dev = c /\ thr[t].pc # "idle"

ResultsEmptyWhenIdle ==
    \A c \in Controllers : ~CallInFlight(c) => ctl[c].job_results = {}

(* A caller that waits for its job's completion has a worker that will     *)
(* signal it: the job is queued at or held by a live worker.               *)
SignalledAtLeastOnce ==
    \A t \in Threads :
        thr[t].pc = "waiting" =>
            LET c == thr[t].dev IN
            /\ is_alive(c)
            /\ \/ ctl[c].wjob = thr[t].job
               \/ \E k \in DOMAIN ctl[c].job_queue : ctl[c].job_queue[k] = thr[t].job

(* C29: each job's completion is signalled exactly once, its result slot   *)
(* is written at most once, and the result map of a controller is empty    *)
(* whenever no write, query or close call is in flight on it.              *)
C29_ResultSlotsWrittenOnceAndFreed ==
    /\ [][SignalledAtMostOnce]_vars
    /\ [][ResultWrittenOnce]_vars
    /\ []ResultsEmptyWhenIdle
    /\ []SignalledAtLeastOnce

(* The worker of controller c is inside `with job.condition`: it has       *)
(* entered _execute_job for its job or is about to notify.                 *)
InsideCondition(c) ==
    is_alive(c) /\ ctl[c].wpc \in {"write", "read", "notify"}

(* C30: no wakeup is lost.  The worker enters the job's condition, runs    *)
(* the job and notifies only while the job's caller is waiting on that     *)
(* condition, and the notification wakes that caller.                      *)
C30_NoLostWakeup ==
    /\ [](\A c \in Controllers :
            InsideCondition(c) =>
                /\ thr[Owner(ctl[c].wjob)].job = ctl[c].wjob
                /\ thr[Owner(ctl[c].wjob)].pc = "waiting")
    /\ [][\A c \in Controllers :
            (is_alive(c) /\ ctl[c].wpc = "exec" /\ ctl'[c].wpc # "exec") =>
                thr[Owner(ctl[c].wjob)].pc = "waiting"]_vars
    /\ [][\A c \in Controllers :
            (InsideCondition(c) /\ ctl[c].wpc = "notify" /\ ctl'[c].wpc # "notify") =>
                thr'[Owner(ctl[c].wjob)].pc = "woken"]_vars

(* The worker has taken a job from the queue while the job's caller still  *)
(* holds the condition, about to wait; another caller's job was completed  *)
(* and that caller woken.                                                  *)
C30_Witness ==
    \E c \in Controllers : \E u \in Threads :
        /\ is_alive(c) /\ ctl[c].wpc = "exec"
        /\ thr[Owner(ctl[c].wjob)].job = ctl[c].wjob
        /\ thr[Owner(ctl[c].wjob)].pc = "put"
        /\ u # Owner(ctl[c].wjob)
        /\ thr[u].dev = c
        /\ thr[u].pc = "woken"

(* Thread t issues a write, query or close in this step on a device that   *)
(* is not open (open() is the call that moves the thread to "start").      *)
CallsWhileNotOpen(t) ==
    /\ thr[t].mode = "closed"
    /\ thr[t].pc = "idle"
    /\ thr'[t].calls = thr[t].calls + 1
    /\ thr'[t].pc # "start"

(* C31: a write, query or close issued on a device that is not open, never *)
(* opened or already closed, fails at once with an error: the call is over *)
(* in the step that issues it, no job is put on any controller's queue and *)
(* the caller is never left inside a call on a device that is not open.    *)
C31_NotOpenFailsImmediately ==
    /\ [][\A t \in Threads :
            CallsWhileNotOpen(t) =>
                /\ thr'[t].pc = "idle"
                /\ thr'[t].outcome.kind = "exc"
                /\ \A c \in Controllers : ctl'[c].job_queue = ctl[c].job_queue]_vars
    /\ [](\A t \in Threads :
            thr[t].mode = "closed" => thr[t].pc \in {"idle", "start"})

====
